---- MODULE Spec2Model ----
(***************************************************************************)
(* ChurchSuite -> Brevo contact sync (api/sync.js).                        *)
(*                                                                         *)
(* One invocation of the HTTP handler: validate configuration, drain the   *)
(* paginated ChurchSuite address book through fetchWithRetry, map every    *)
(* record with mapContactToBrevo, upsert the mapped records one by one     *)
(* into Brevo, answer with a summary.  The handler is a single sequential  *)
(* flow; its steps are cut at the awaits (one HTTP attempt, one pause).    *)
(***************************************************************************)
EXTENDS Integers, Sequences, FiniteSets, TLC

(***************************************************************************)
(* Bounds of the model.                                                    *)
(***************************************************************************)
MaxPage == 2          \* pages the collector is followed through when the source answers freely
MaxTotal == 3         \* largest total_pages of a source that reports it consistently
MaxContacts == 2      \* records the source holds in all
MaxPerPage == 1       \* records per page in the general specification
MaxRetries == 3       \* largest retry budget tried on fetchWithRetry alone
MaxFieldsSet == 1     \* fields of a template contact overwritten for the mapper
CapBatch == 11        \* records of the single page in the large-batch specification

(***************************************************************************)
(* Program constants.                                                      *)
(***************************************************************************)
DefaultRetries == 3   \* fetchWithRetry(url, options, retries = 3)
ErrorCap == 10        \* failures.slice(0, 10)

(***************************************************************************)
(* JavaScript values.  Every scalar is a string; the non-string values a   *)
(* record can carry are written in angle brackets.                         *)
(***************************************************************************)
Undef == "<undefined>"
Null == "<null>"
False == "<false>"
True == "<true>"

Falsy == {Undef, Null, False, ""}

Truthy(v) == v \notin Falsy

\* a || b
Or(a, b) == IF Truthy(a) THEN a ELSE b

Min(a, b) == IF a < b THEN a ELSE b

(***************************************************************************)
(* Source contacts.                                                        *)
(***************************************************************************)
ScalarFields ==
  { "email", "email_address", "emailAddress",
    "first_name", "firstName", "last_name", "lastName",
    "mobile", "mobile_number", "mobileNumber", "telephone", "phone",
    "address_line1", "addressLine1", "address_line2", "addressLine2",
    "address_line3", "addressLine3", "address_line4", "addressLine4",
    "town", "city", "postcode", "postal_code", "postalCode",
    "country", "date_of_birth", "dateOfBirth" }

\* An entry of contact.emails: null, or an object with address and is_default.
NullEntry == [isNull |-> TRUE, address |-> Undef, is_default |-> Undef]

Entry(a, d) == [isNull |-> FALSE, address |-> a, is_default |-> d]

NoEmails == [present |-> FALSE, items |-> <<>>]

Emails(s) == [present |-> TRUE, items |-> s]

\* The record with no field at all.
Bare ==
  [ email |-> Undef, email_address |-> Undef, emailAddress |-> Undef,
    emails |-> NoEmails,
    first_name |-> Undef, firstName |-> Undef,
    last_name |-> Undef, lastName |-> Undef,
    mobile |-> Undef, mobile_number |-> Undef, mobileNumber |-> Undef,
    telephone |-> Undef, phone |-> Undef,
    address_line1 |-> Undef, addressLine1 |-> Undef,
    address_line2 |-> Undef, addressLine2 |-> Undef,
    address_line3 |-> Undef, addressLine3 |-> Undef,
    address_line4 |-> Undef, addressLine4 |-> Undef,
    town |-> Undef, city |-> Undef,
    postcode |-> Undef, postal_code |-> Undef, postalCode |-> Undef,
    country |-> Undef, date_of_birth |-> Undef, dateOfBirth |-> Undef ]

(***************************************************************************)
(* mapContactToBrevo                                                       *)
(***************************************************************************)
\* contact?.emails?.find?.(e => e.is_default): index of the entry found, 0 if
\* none, -1 if the callback dereferences a null entry first (TypeError).
RECURSIVE FindDefault(_, _)
FindDefault(items, i) ==
  IF i > Len(items) THEN 0
  ELSE IF items[i].isNull THEN -1
  ELSE IF Truthy(items[i].is_default) THEN i
  ELSE FindDefault(items, i + 1)

DirectEmail(c) == Or(c.email, Or(c.email_address, c.emailAddress))

\* The mapper throws exactly when the || chain reaches find() and the
\* callback meets a null entry before an entry flagged is_default.
MapThrows(c) ==
  /\ ~Truthy(DirectEmail(c))
  /\ c.emails.present
  /\ FindDefault(c.emails.items, 1) = -1

DefaultAddress(c) ==
  LET i == FindDefault(c.emails.items, 1)
  IN IF c.emails.present /\ i > 0 THEN c.emails.items[i].address ELSE Undef

FirstAddress(c) ==
  IF c.emails.present /\ Len(c.emails.items) > 0 /\ ~c.emails.items[1].isNull
  THEN c.emails.items[1].address
  ELSE Undef

ResolveEmail(c) == Or(DirectEmail(c), Or(DefaultAddress(c), FirstAddress(c)))

\* [l1, l2, l3, l4].filter(Boolean).join(", ")
RECURSIVE Join(_)
Join(lines) ==
  IF Len(lines) = 0 THEN ""
  ELSE IF ~Truthy(Head(lines)) THEN Join(Tail(lines))
  ELSE LET rest == Join(Tail(lines))
       IN IF rest = "" THEN Head(lines) ELSE Head(lines) \o ", " \o rest

AddressOf(c) ==
  Join(<< Or(c.address_line1, c.addressLine1), Or(c.address_line2, c.addressLine2),
          Or(c.address_line3, c.addressLine3), Or(c.address_line4, c.addressLine4) >>)

RawAttributes(c) ==
  [ FIRSTNAME |-> Or(c.first_name, c.firstName),
    LASTNAME |-> Or(c.last_name, c.lastName),
    SMS |-> Or(c.mobile, Or(c.mobile_number, c.mobileNumber)),
    PHONE |-> Or(c.telephone, c.phone),
    ADDRESS |-> AddressOf(c),
    CITY |-> Or(c.town, c.city),
    ZIPCODE |-> Or(c.postcode, Or(c.postal_code, c.postalCode)),
    COUNTRY |-> c.country,
    DATEOFBIRTH |-> Or(c.date_of_birth, c.dateOfBirth) ]

DropsBlankOnlyUndefined(value) == value = Undef

\* if (value === undefined || value === null || value === "") delete
DropsBlank(value) == value = Undef \/ value = Null \/ value = ""

CleanAttributes(raw) ==
  [ key \in {k \in DOMAIN raw : ~DropsBlank(raw[k])} |-> raw[key] ]

NoAttributes == [key \in {} |-> ""]

\* The three ways the call ends: it throws, returns null, returns a contact.
mapContactToBrevo(c) ==
  IF MapThrows(c)
  THEN [kind |-> "throw", email |-> Undef, attributes |-> NoAttributes]
  ELSE IF ~Truthy(ResolveEmail(c))
  THEN [kind |-> "null", email |-> Undef, attributes |-> NoAttributes]
  ELSE [kind |-> "contact", email |-> ResolveEmail(c),
        attributes |-> CleanAttributes(RawAttributes(c))]

MapErrorMessage == "Cannot read properties of null (reading 'is_default')"

(***************************************************************************)
(* upsertBrevoContact: the body of the POST.                               *)
(***************************************************************************)
\* Number.isInteger(brevoListId) && brevoListId > 0; a list id is an integer
\* here, and 0 stands for every value the test rejects.
ValidListId(id) == id > 0

BrevoPayload(contact, brevoListId) ==
  [ email |-> contact.email,
    attributes |-> contact.attributes,
    updateEnabled |-> TRUE,
    listIds |-> IF ValidListId(brevoListId) THEN <<brevoListId>> ELSE <<>> ]

(***************************************************************************)
(* fetchWithRetry                                                          *)
(***************************************************************************)
\* What one fetch() does: "ok" a 2xx response with a JSON body, "http" a
\* non-2xx response, "net" a rejected fetch, "badjson" a 2xx response whose
\* body res.json() cannot parse.
Outcomes == {"ok", "http", "net", "badjson"}

Failures == {"http", "net"}

ErrMessage(o) ==
  CASE o = "http" -> "HTTP 500: Internal Server Error"
    [] o = "net" -> "fetch failed"
    [] o = "badjson" -> "Unexpected end of JSON input"
    [] OTHER -> Undef

BudgetExhaustedEarly(retries) == retries <= 1

\* if (retries === 0) throw err;
BudgetExhausted(retries) == retries = 0

\* One pass through the body of fetchWithRetry with `retries` left, the
\* request ending as o.  "return": the JSON is returned; "pause": the catch
\* block waits and calls again with retries - 1; "throw": the caller gets the
\* error, either rethrown by the catch block or, for a body that does not
\* parse, as the rejection of the returned res.json() promise, which the
\* try block does not await.
RetryVerdict(o, retries) ==
  IF o = "ok" THEN "return"
  ELSE IF o = "badjson" THEN "throw"
  ELSE IF BudgetExhausted(retries) THEN "throw"
  ELSE "pause"

(***************************************************************************)
(* fetchAllChurchSuiteContacts: the pagination decision.                   *)
(***************************************************************************)
\* response?.pagination?.total_pages is a number, 0 when the response has no
\* such count (0 and undefined are both falsy in the test below).
AdvanceOnTotalInclusive(page, response) ==
  \/ response.total_pages # 0 /\ page <= response.total_pages
  \/ Truthy(Or(response.pag_next, response.top_next))

AdvanceOnNestedPointerOnly(page, response) ==
  \/ response.total_pages # 0 /\ page < response.total_pages
  \/ Truthy(response.pag_next)

\* if (totalPages && page < totalPages) ... continue
\* nextPage = response?.pagination?.next_page || response?.next_page
\* if (nextPage) ... continue
ShouldAdvance(page, response) ==
  \/ response.total_pages # 0 /\ page < response.total_pages
  \/ Truthy(Or(response.pag_next, response.top_next))

(***************************************************************************)
(* State.                                                                  *)
(***************************************************************************)
VARIABLES
  \* the handler and the functions it calls
  pc,              \* "start", "get", "getPause", "post", "postPause", "done"
  domain,          \* CHURCHSUITE_DOMAIN
  sourceKey,       \* CHURCHSUITE_API_KEY
  targetKey,       \* BREVO_API_KEY
  brevoListId,     \* brevoListId
  page,            \* page of fetchAllChurchSuiteContacts
  contacts,        \* contacts of fetchAllChurchSuiteContacts
  response,        \* pagination fields of the last response, and its page
  url,             \* url of the running fetchWithRetry: "source" or "target"
  retries,         \* retries of the running fetchWithRetry
  outcome,         \* how the last fetch() of the running fetchWithRetry ended
  mappedContacts,  \* mappedContacts
  idx,             \* position of the upsert loop in mappedContacts
  upserted,        \* upserted
  failures,        \* failures
  res,             \* what res.status(..).json(..) was given
  resCount,        \* number of times the handler responded
  \* the two remote services
  srv,             \* what the source serves and how the transports may fail
  pageCalls,       \* pages asked of fetchWithRetry by the collector, in order
  getsSent,        \* pages for which a GET reached the source API
  upsertCalls,     \* emails handed to upsertBrevoContact, in order
  upsertResults,   \* how the last fetch() of each of these calls ended
  posted,          \* bodies of the POSTs that reached the target API
  \* fetchWithRetry on its own
  rBudget,         \* retries argument of the outermost call
  rTransport,      \* how the transport answers the 1st, 2nd, ... request
  rRetries,        \* retries of the innermost call
  rState,          \* "idle", "fetching", "pausing", "returned", "thrown"
  rAttempts,       \* fetch() calls made
  rPauses,         \* setTimeout pauses taken
  rError,          \* message of the error the call threw
  \* mapContactToBrevo and upsertBrevoContact on their own
  mContact,        \* the contact given to the mapper
  mState,          \* "idle", "input", "mapped", "posted"
  mResult,         \* what the mapper returned
  mPayload         \* the body upsertBrevoContact built from it

handlerVars ==
  << pc, domain, sourceKey, targetKey, brevoListId, page, contacts, response,
     url, retries, outcome, mappedContacts, idx, upserted, failures, res, resCount,
     srv, pageCalls, getsSent, upsertCalls, upsertResults, posted >>

retryVars == << rBudget, rTransport, rRetries, rState, rAttempts, rPauses, rError >>

mapperVars == << mContact, mState, mResult, mPayload >>

vars == << handlerVars, retryVars, mapperVars >>

NoResponse == [page |-> 0, total_pages |-> 0, pag_next |-> Undef, top_next |-> Undef]

NoRes ==
  [ status |-> 0, keys |-> {}, ok |-> FALSE, error |-> Undef, stack |-> Undef,
    fetched |-> 0, upserted |-> 0, failed |-> 0, errors |-> <<>> ]

NoPayload ==
  [email |-> Undef, attributes |-> NoAttributes, updateEnabled |-> FALSE, listIds |-> <<>>]

NoResult == [kind |-> "none", email |-> Undef, attributes |-> NoAttributes]

HandlerIdle(mode, total) ==
  /\ pc = "start"
  /\ domain = Undef /\ sourceKey = Undef /\ targetKey = Undef /\ brevoListId = 0
  /\ page = 0 /\ contacts = <<>> /\ response = NoResponse
  /\ url = "none" /\ retries = 0 /\ outcome = "none"
  /\ mappedContacts = <<>> /\ idx = 0 /\ upserted = 0 /\ failures = <<>>
  /\ res = NoRes /\ resCount = 0
  /\ srv = [mode |-> mode, total |-> total]
  /\ pageCalls = <<>> /\ getsSent = {} /\ upsertCalls = <<>> /\ upsertResults = <<>>
  /\ posted = {}

RetryIdle ==
  /\ rBudget = 0 /\ rTransport = <<>> /\ rRetries = 0 /\ rState = "idle"
  /\ rAttempts = 0 /\ rPauses = 0 /\ rError = Undef

MapperIdle ==
  /\ mContact = Bare /\ mState = "idle" /\ mResult = NoResult /\ mPayload = NoPayload

(***************************************************************************)
(* fetchWithRetry on its own: every budget up to MaxRetries against every  *)
(* transport, the transport's answers fixed beforehand.                    *)
(***************************************************************************)
InitRetry ==
  /\ HandlerIdle("none", 0)
  /\ MapperIdle
  /\ rBudget \in 0..MaxRetries
  /\ rTransport \in [1..(MaxRetries + 2) -> Outcomes]
  /\ rRetries = rBudget
  /\ rState = "fetching"
  /\ rAttempts = 0 /\ rPauses = 0 /\ rError = Undef

\* try { res = await fetch(..); if (!res.ok) throw ..; return res.json() }
\* catch (err) { if (retries === 0) throw err; ..
RetryAttempt ==
  /\ rState = "fetching"
  /\ LET o == rTransport[rAttempts + 1]
         verdict == RetryVerdict(o, rRetries)
     IN /\ rAttempts' = rAttempts + 1
        /\ rState' = CASE verdict = "return" -> "returned"
                       [] verdict = "throw" -> "thrown"
                       [] OTHER -> "pausing"
        /\ rError' = IF verdict = "throw" THEN ErrMessage(o) ELSE rError
  /\ UNCHANGED << rBudget, rTransport, rRetries, rPauses >>
  /\ UNCHANGED << handlerVars, mapperVars >>

\* await new Promise(r => setTimeout(r, 1000)); return fetchWithRetry(.., retries - 1)
RetryPause ==
  /\ rState = "pausing"
  /\ rPauses' = rPauses + 1
  /\ rRetries' = rRetries - 1
  /\ rState' = "fetching"
  /\ UNCHANGED << rBudget, rTransport, rAttempts, rError >>
  /\ UNCHANGED << handlerVars, mapperVars >>

NextRetry == RetryAttempt \/ RetryPause

SpecRetry == InitRetry /\ [][NextRetry]_vars

(***************************************************************************)
(* mapContactToBrevo and the POST body on their own: template records,     *)
(* each with up to MaxFieldsSet fields overwritten.                        *)
(***************************************************************************)
SnakeCase ==
  [ Bare EXCEPT !.email = "ann@example.org",
                !.first_name = "Ann", !.last_name = "Lee", !.mobile = "07700900001",
                !.telephone = "01803000001", !.address_line1 = "1 High St",
                !.address_line3 = "Flat 2", !.town = "Torquay", !.postcode = "TQ1 1AA",
                !.country = "GB", !.date_of_birth = "1990-01-01" ]

CamelCase ==
  [ Bare EXCEPT !.emailAddress = "bob@example.org",
                !.firstName = "Bob", !.lastName = "Ray", !.mobileNumber = "07700900002",
                !.phone = "01803000002", !.addressLine2 = "2 Low Rd",
                !.addressLine4 = "Devon", !.city = "Paignton", !.postalCode = "TQ3 2BB",
                !.dateOfBirth = "1985-05-05" ]

\* Every attribute field present and empty.
Blank ==
  [ f \in DOMAIN Bare |->
      IF f = "emails" THEN NoEmails
      ELSE IF f = "email" THEN "cy@example.org"
      ELSE IF f \in {"email_address", "emailAddress"} THEN Undef
      ELSE "" ]

Templates == {Bare, SnakeCase, CamelCase, Blank}

EmailCollections ==
  { NoEmails,
    Emails(<<>>),
    Emails(<<NullEntry>>),
    Emails(<<Entry("first@example.org", False), Entry("main@example.org", True)>>),
    Emails(<<Entry("only@example.org", Undef)>>),
    Emails(<<Entry("", True)>>),
    Emails(<<Entry("main@example.org", True), NullEntry>>) }

FieldValues == {Undef, Null, "", "x"}

RECURSIVE Overwritten(_, _)
Overwritten(cs, k) ==
  IF k = 0 THEN cs
  ELSE Overwritten(
         cs \cup { [c EXCEPT ![f] = v] : c \in cs, f \in ScalarFields, v \in FieldValues },
         k - 1)

MapperInputs ==
  Overwritten({ [t EXCEPT !.emails = e] : t \in Templates, e \in EmailCollections },
              MaxFieldsSet)

ListIds == {0, 7}

InitMap ==
  /\ HandlerIdle("none", 0)
  /\ RetryIdle
  /\ mContact \in MapperInputs
  /\ mState = "input"
  /\ mResult = NoResult
  /\ mPayload = NoPayload

MapperCall ==
  /\ mState = "input"
  /\ mResult' = mapContactToBrevo(mContact)
  /\ mState' = "mapped"
  /\ UNCHANGED << mContact, mPayload >>
  /\ UNCHANGED << handlerVars, retryVars >>

\* .filter(Boolean), then upsertBrevoContact builds the body for what is left.
MapperPost ==
  /\ mState = "mapped"
  /\ mResult.kind = "contact"
  /\ \E id \in ListIds : mPayload' = BrevoPayload(mResult, id)
  /\ mState' = "posted"
  /\ UNCHANGED << mContact, mResult >>
  /\ UNCHANGED << handlerVars, retryVars >>

NextMap == MapperCall \/ MapperPost

SpecMap == InitMap /\ [][NextMap]_vars

(***************************************************************************)
(* The handler.                                                            *)
(***************************************************************************)
DomainValues == {Undef, "", "CHANGE_ME", "togetherchurch"}

\* config.json: unreadable, or an object with churchsuiteDomain and brevoListId.
ConfigFiles ==
  {[loads |-> FALSE, churchsuiteDomain |-> Undef, brevoListId |-> 0]}
  \cup { [loads |-> TRUE, churchsuiteDomain |-> d, brevoListId |-> l] :
           d \in DomainValues, l \in ListIds }

\* process.env
Environments ==
  [ CHURCHSUITE_DOMAIN : {Undef, "CHANGE_ME", "togetherchurch"},
    CHURCHSUITE_API_KEY : {Undef, "cs-key"},
    BREVO_API_KEY : {Undef, "brevo-key"} ]

DomainNotConfigured ==
  "CHURCHSUITE_DOMAIN not configured. Set CHURCHSUITE_DOMAIN environment variable or ensure config.json is accessible."

SourceKeyNotSet == "CHURCHSUITE_API_KEY environment variable is not set"

TargetKeyNotSet == "BREVO_API_KEY environment variable is not set"

ConfigMessages == {DomainNotConfigured, SourceKeyNotSet, TargetKeyNotSet}

\* if (!CHURCHSUITE_DOMAIN || CHURCHSUITE_DOMAIN === "CHANGE_ME")
DomainMissing(d) == ~Truthy(d) \/ d = "CHANGE_ME"

ConfigErrorNoTargetCheck(d, sk, tk) ==
  IF DomainMissing(d) THEN DomainNotConfigured
  ELSE IF ~Truthy(sk) THEN SourceKeyNotSet
  ELSE Undef

\* The three checks in order; Undef when all pass.
ConfigError(d, sk, tk) ==
  IF DomainMissing(d) THEN DomainNotConfigured
  ELSE IF ~Truthy(sk) THEN SourceKeyNotSet
  ELSE IF ~Truthy(tk) THEN TargetKeyNotSet
  ELSE Undef

\* return res.status(500).json({ ok: false, error: ".." })
ConfigErrorBody(message) ==
  [NoRes EXCEPT !.status = 500, !.keys = {"ok", "error"}, !.error = message]

\* catch (err) { res.status(500).json({ ok: false, error: err.message, stack: .. }) }
\* stack is undefined, and so left out of the JSON, unless NODE_ENV is development.
CaughtBody(message, development) ==
  [NoRes EXCEPT !.status = 500,
                !.keys = IF development THEN {"ok", "error", "stack"} ELSE {"ok", "error"},
                !.error = message,
                !.stack = IF development THEN "<stack>" ELSE Undef]

CappedErrorsTail(fs) == SubSeq(fs, Len(fs) - Min(Len(fs), ErrorCap) + 1, Len(fs))

\* failures.slice(0, 10)
CappedErrors(fs) == SubSeq(fs, 1, Min(Len(fs), ErrorCap))

SummaryBodyCountsMapped(fetched, ups, fs) ==
  [NoRes EXCEPT !.status = 200,
                !.keys = {"ok", "fetched", "upserted", "failed", "errors"},
                !.ok = TRUE,
                !.fetched = ups + Len(fs), !.upserted = ups, !.failed = Len(fs),
                !.errors = CappedErrors(fs)]

\* res.status(200).json({ ok: true, fetched, upserted, failed, errors })
SummaryBody(fetched, ups, fs) ==
  [NoRes EXCEPT !.status = 200,
                !.keys = {"ok", "fetched", "upserted", "failed", "errors"},
                !.ok = TRUE,
                !.fetched = fetched, !.upserted = ups, !.failed = Len(fs),
                !.errors = CappedErrors(fs)]

Responds(body) ==
  /\ res' = body
  /\ resCount' = resCount + 1
  /\ pc' = "done"

\* churchSuiteContacts.map(mapContactToBrevo)
MapAll(cs) == [i \in 1..Len(cs) |-> mapContactToBrevo(cs[i])]

AnyThrows(ms) == \E i \in 1..Len(ms) : ms[i].kind = "throw"

IsContact(m) == m.kind = "contact"

\* .filter(Boolean)
FilterBoolean(ms) == SelectSeq(ms, IsContact)

(***************************************************************************)
(* The services.  srv.mode "free": the source answers every page with any  *)
(* pagination fields; "paged": it reports total_pages = srv.total on every *)
(* page and no next-page pointer from page srv.total on; "batch": it has   *)
(* one page of 2 or CapBatch contacts.  In the first mode the source      *)
(* holds at most MaxContacts records, of the kinds below, and both         *)
(* transports fail in every way; in the other two its records are          *)
(* Person(1), Person(2), .., and a POST either succeeds or is refused.     *)
(***************************************************************************)
Ann == SnakeCase

Dee == [Bare EXCEPT !.emails = Emails(<<Entry("first@example.org", False),
                                       Entry("dee@example.org", True)>>),
                    !.firstName = "Dee", !.city = ""]

Anon == [Bare EXCEPT !.first_name = "Nobody", !.emails = Emails(<<>>)]

Broken == [Bare EXCEPT !.first_name = "Eve", !.emails = Emails(<<NullEntry>>)]

ContactKinds == {Ann, Dee, Anon, Broken}

Person(i) ==
  [Bare EXCEPT !.email = "p" \o ToString(i) \o "@example.org", !.first_name = "P"]

PageResults(n) ==
  IF srv.mode = "batch" THEN {[i \in 1..k |-> Person(i)] : k \in {2, CapBatch}}
  ELSE IF srv.mode = "paged" THEN {<<>>, <<Person(n + 1)>>}
  ELSE UNION {[1..k -> ContactKinds] : k \in 0..Min(MaxPerPage, MaxContacts - n)}

PageMetas(p) ==
  CASE srv.mode = "batch" ->
         [total_pages : {0, 1}, pag_next : {Undef}, top_next : {Undef}]
    [] srv.mode = "paged" ->
         [total_pages : {srv.total},
          pag_next : IF p < srv.total THEN {Undef, "next"} ELSE {Undef},
          top_next : IF p < srv.total THEN {Undef, "next"} ELSE {Undef}]
    [] OTHER ->
         [total_pages : 0..MaxPage, pag_next : {Undef, "next"}, top_next : {Undef, "next"}]

GetOutcomes == Outcomes

\* The collector's loop has no bound of its own; the model follows it up to
\* this page.
PageLimit == IF srv.mode = "paged" THEN srv.total + 1 ELSE MaxPage

PostOutcomes == IF srv.mode = "free" THEN Outcomes ELSE {"ok", "http"}

Init ==
  /\ HandlerIdle("free", 0)
  /\ RetryIdle
  /\ MapperIdle

InitPaged ==
  /\ \E n \in 1..MaxTotal : HandlerIdle("paged", n)
  /\ RetryIdle
  /\ MapperIdle

InitBatch ==
  /\ HandlerIdle("batch", 1)
  /\ RetryIdle
  /\ MapperIdle

\* Lines 162-211: load the configuration, read the environment, validate,
\* and enter fetchAllChurchSuiteContacts up to its first request.
Start ==
  /\ pc = "start"
  /\ \E file \in ConfigFiles, env \in Environments :
       LET d == IF file.loads THEN file.churchsuiteDomain ELSE env.CHURCHSUITE_DOMAIN
           sk == env.CHURCHSUITE_API_KEY
           tk == env.BREVO_API_KEY
           error == ConfigError(d, sk, tk)
       IN /\ domain' = d
          /\ sourceKey' = sk
          /\ targetKey' = tk
          /\ brevoListId' = file.brevoListId
          /\ IF error # Undef
             THEN /\ Responds(ConfigErrorBody(error))
                  /\ UNCHANGED << page, url, retries, pageCalls >>
             ELSE /\ pc' = "get"
                  /\ page' = 1
                  /\ url' = "source"
                  /\ retries' = DefaultRetries
                  /\ pageCalls' = <<1>>
                  /\ UNCHANGED << res, resCount >>
  /\ UNCHANGED << contacts, response, outcome, mappedContacts, idx, upserted,
                  failures, srv, getsSent, upsertCalls, upsertResults, posted >>
  /\ UNCHANGED << retryVars, mapperVars >>

\* The upsert loop from its top: nothing to upsert ends the handler with the
\* summary, otherwise upsertBrevoContact is entered for the contact at i.
EntersUpsert(mapped, i, fetched, ups, fs) ==
  IF i > Len(mapped)
  THEN /\ Responds(SummaryBody(fetched, ups, fs))
       /\ UNCHANGED << idx, url, retries, upsertCalls >>
  ELSE /\ idx' = i
       /\ url' = "target"
       /\ retries' = DefaultRetries
       /\ upsertCalls' = Append(upsertCalls, mapped[i].email)
       /\ pc' = "post"
       /\ UNCHANGED << res, resCount >>

SourceThrowsKeepsPages(o) ==
  /\ mappedContacts' = FilterBoolean(MapAll(contacts))
  /\ EntersUpsert(FilterBoolean(MapAll(contacts)), 1, Len(contacts), 0, <<>>)
  /\ UNCHANGED << page, contacts, response, pageCalls >>

\* The source request failed for good: the error leaves fetchWithRetry and
\* fetchAllChurchSuiteContacts and reaches the handler's catch block.
SourceThrows(o) ==
  /\ \E development \in BOOLEAN : Responds(CaughtBody(ErrMessage(o), development))
  /\ UNCHANGED << page, contacts, response, url, retries, mappedContacts, idx,
                  pageCalls, upsertCalls >>

SourcePauses ==
  /\ pc' = "getPause"
  /\ UNCHANGED << page, contacts, response, url, retries, mappedContacts, idx,
                  pageCalls, upsertCalls, res, resCount >>

\* Lines 118-133, and when the loop breaks lines 136 and 213-220.
SourceReturns(r) ==
  LET all == contacts \o r.results
      mapped == MapAll(all)
  IN /\ contacts' = all
     /\ response' = [page |-> page, total_pages |-> r.total_pages,
                     pag_next |-> r.pag_next, top_next |-> r.top_next]
     /\ IF ShouldAdvance(page, r)
        THEN /\ page' = page + 1
             /\ retries' = DefaultRetries
             /\ pageCalls' = Append(pageCalls, page + 1)
             /\ pc' = "get"
             /\ UNCHANGED << url, mappedContacts, idx, upsertCalls, res, resCount >>
        ELSE IF AnyThrows(mapped)
        THEN /\ \E development \in BOOLEAN :
                  Responds(CaughtBody(MapErrorMessage, development))
             /\ UNCHANGED << page, url, retries, pageCalls, mappedContacts, idx,
                             upsertCalls >>
        ELSE /\ mappedContacts' = FilterBoolean(mapped)
             /\ EntersUpsert(FilterBoolean(mapped), 1, Len(all), 0, <<>>)
             /\ UNCHANGED << page, pageCalls >>

\* One fetch() of the source API inside fetchWithRetry, and what follows it
\* up to the next await.
SourceAttempt ==
  /\ pc = "get"
  /\ page <= PageLimit
  /\ getsSent' = getsSent \cup {page}
  /\ \E o \in GetOutcomes :
       /\ outcome' = o
       /\ IF RetryVerdict(o, retries) = "pause" THEN SourcePauses
          ELSE IF RetryVerdict(o, retries) = "throw" THEN SourceThrows(o)
          ELSE \E results \in PageResults(Len(contacts)), meta \in PageMetas(page) :
                 SourceReturns([results |-> results, total_pages |-> meta.total_pages,
                                pag_next |-> meta.pag_next, top_next |-> meta.top_next])
  /\ UNCHANGED << domain, sourceKey, targetKey, brevoListId, upserted, failures,
                  srv, upsertResults, posted >>
  /\ UNCHANGED << retryVars, mapperVars >>

\* The 1 s pause of the catch block, then the recursive call.
SourcePause ==
  /\ pc = "getPause"
  /\ retries' = retries - 1
  /\ pc' = "get"
  /\ UNCHANGED << domain, sourceKey, targetKey, brevoListId, page, contacts, response,
                  url, outcome, mappedContacts, idx, upserted, failures, res, resCount,
                  srv, pageCalls, getsSent, upsertCalls, upsertResults, posted >>
  /\ UNCHANGED << retryVars, mapperVars >>

UpsertedAfterAlways(verdict, n) == n + 1

\* try { await upsertBrevoContact(..); upserted += 1; } catch (err) { .. }
UpsertedAfter(verdict, n) == IF verdict = "return" THEN n + 1 ELSE n

\* One fetch() of the target API inside fetchWithRetry; when the call ends,
\* lines 223 or 225 and the loop's next turn or the summary.
TargetAttempt ==
  /\ pc = "post"
  /\ posted' = posted \cup {BrevoPayload(mappedContacts[idx], brevoListId)}
  /\ \E o \in PostOutcomes :
       LET verdict == RetryVerdict(o, retries)
           ups == UpsertedAfter(verdict, upserted)
           fs == IF verdict = "throw"
                 THEN Append(failures, [email |-> mappedContacts[idx].email,
                                        error |-> ErrMessage(o)])
                 ELSE failures
       IN /\ outcome' = o
          /\ upserted' = ups
          /\ failures' = fs
          /\ IF verdict = "pause"
             THEN /\ pc' = "postPause"
                  /\ UNCHANGED << idx, url, retries, upsertCalls, upsertResults, res,
                                  resCount >>
             ELSE /\ upsertResults' = Append(upsertResults, o)
                  /\ EntersUpsert(mappedContacts, idx + 1, Len(contacts), ups, fs)
  /\ UNCHANGED << domain, sourceKey, targetKey, brevoListId, page, contacts, response,
                  mappedContacts, srv, pageCalls, getsSent >>
  /\ UNCHANGED << retryVars, mapperVars >>

TargetPause ==
  /\ pc = "postPause"
  /\ retries' = retries - 1
  /\ pc' = "post"
  /\ UNCHANGED << domain, sourceKey, targetKey, brevoListId, page, contacts, response,
                  url, outcome, mappedContacts, idx, upserted, failures, res, resCount,
                  srv, pageCalls, getsSent, upsertCalls, upsertResults, posted >>
  /\ UNCHANGED << retryVars, mapperVars >>

Next == Start \/ SourceAttempt \/ SourcePause \/ TargetAttempt \/ TargetPause

Spec == Init /\ [][Next]_vars

\* The handler's steps are continuations of awaited promises: each one that
\* is pending runs.
SpecPaged == InitPaged /\ [][Next]_vars /\ WF_vars(Next)

SpecBatch == InitBatch /\ [][Next]_vars

FirstSettled(t) ==
  LET settled == {i \in DOMAIN t : t[i] \notin Failures}
  IN IF settled = {} THEN Len(t) + 1
     ELSE CHOOSE i \in settled : \A j \in settled : i <= j

RetryDone == rState \in {"returned", "thrown"}

(***************************************************************************)
(* C1.  fetchWithRetry with budget r, the transport first not failing at   *)
(* attempt k: the call makes min(k, r + 1) requests and pauses once before *)
(* every request but the first; when all r + 1 requests fail it throws the *)
(* error of the last one; when request k <= r + 1 succeeds it returns.     *)
(* With r = 3: four requests when all fail, three requests and two pauses  *)
(* when the third succeeds.                                                *)
(***************************************************************************)
C1_RetryAttempts ==
  RetryDone =>
    LET k == FirstSettled(rTransport)
    IN /\ rAttempts = Min(k, rBudget + 1)
       /\ rPauses = rAttempts - 1
       /\ k > rBudget + 1 =>
            /\ rState = "thrown"
            /\ rError = ErrMessage(rTransport[rBudget + 1])
       /\ (k <= rBudget + 1 /\ rTransport[k] = "ok") => rState = "returned"

C1_Witness ==
  /\ rBudget = DefaultRetries
  /\ rState = "thrown"
  /\ rAttempts = 4
  /\ rTransport[1] = "net" /\ rTransport[4] = "http"
  /\ rError = ErrMessage("http")

C1_WitnessRecovers ==
  /\ rBudget = DefaultRetries
  /\ rState = "returned"
  /\ rAttempts = 3 /\ rPauses = 2

(***************************************************************************)
(* How an invocation stands.                                               *)
(***************************************************************************)
TransportMessages == {ErrMessage(o) : o \in Outcomes \ {"ok"}}

ConfigFailed == pc = "done" /\ res.error \in ConfigMessages

FetchFailed == pc = "done" /\ res.error \in TransportMessages

CollectorReturned ==
  \/ pc \in {"post", "postPause"}
  \/ pc = "done" /\ ~ConfigFailed /\ ~FetchFailed

Summarised == pc = "done" /\ res.status = 200

UpTo(n) == [i \in 1..n |-> i]

(***************************************************************************)
(* C2.  Against a source that reports total_pages = N on every page and no *)
(* next-page pointer on page N, an invocation whose configuration is valid *)
(* comes to the end of the fetch phase, and when the collector has         *)
(* returned it has asked for pages 1..N, once each and in this order, and  *)
(* GETs were sent for these pages only.                                    *)
(***************************************************************************)
C2_CollectorTerminates ==
  /\ [](CollectorReturned => pageCalls = UpTo(srv.total) /\ getsSent = 1..srv.total)
  /\ <>(CollectorReturned \/ FetchFailed \/ ConfigFailed)

C2_Witness ==
  /\ srv.total = 3
  /\ CollectorReturned
  /\ pageCalls = <<1, 2, 3>>
  /\ response.page = 3 /\ response.pag_next = Undef /\ response.top_next = Undef

(***************************************************************************)
(* C3.  After the response for page p the collector is on page p + 1 if    *)
(* the response has a total-page count above p, or else if it has a        *)
(* next-page pointer under pagination.next_page or next_page; otherwise it *)
(* has stopped on page p and returned.                                     *)
(***************************************************************************)
C3_AdvanceRule ==
  response.page # 0 =>
    LET byTotal == response.total_pages # 0 /\ response.page < response.total_pages
        byPointer == response.pag_next = "next" \/ response.top_next = "next"
    IN IF byTotal \/ byPointer
       THEN /\ page = response.page + 1
            /\ pageCalls = UpTo(page)
            /\ pc \in {"get", "getPause"} \/ FetchFailed
       ELSE /\ page = response.page
            /\ pageCalls = UpTo(page)
            /\ CollectorReturned

\* total_pages says page 1 is the last one, a pointer says otherwise.
C3_Witness ==
  /\ response.page = 1
  /\ response.total_pages = 1
  /\ response.pag_next = Undef /\ response.top_next = "next"
  /\ page = 2 /\ pc = "get"

(***************************************************************************)
(* Upsert outcomes and the summary.                                        *)
(***************************************************************************)
\* The failures entry of the i-th upsert call, had it failed.
FailureOf(i) == [email |-> mappedContacts[i].email, error |-> ErrMessage(upsertResults[i])]

RECURSIVE FailuresAmong(_)
FailuresAmong(n) ==
  IF n = 0 THEN <<>>
  ELSE IF upsertResults[n] = "ok" THEN FailuresAmong(n - 1)
  ELSE Append(FailuresAmong(n - 1), FailureOf(n))

Succeeded == {i \in 1..Len(upsertResults) : upsertResults[i] = "ok"}

UpsertsAccounted ==
  /\ upsertCalls = [i \in 1..Len(mappedContacts) |-> mappedContacts[i].email]
  /\ Len(upsertResults) = Len(mappedContacts)
  /\ res.ok
  /\ res.upserted = Cardinality(Succeeded)
  /\ res.failed = Len(mappedContacts) - Cardinality(Succeeded)
  /\ res.upserted + res.failed = Len(mappedContacts)
  /\ failures = FailuresAmong(Len(mappedContacts))

(***************************************************************************)
(* C4 as stated.  A failing upsert never aborts the batch: every mapped    *)
(* contact is upserted once, in list order; upserted and failed count the  *)
(* successes and the failures and add up to the mapped contacts; every     *)
(* failure is in errors with its email and message.                        *)
(***************************************************************************)
C4_EveryFailureInErrors ==
  (pc = "done" /\ upsertCalls # <<>>) =>
    /\ UpsertsAccounted
    /\ res.errors = FailuresAmong(Len(mappedContacts))

(***************************************************************************)
(* C4 as amended.  The same, each failure being recorded with its email    *)
(* and message, and in errors if it is one of the first 10.                *)
(***************************************************************************)
C4_FailuresCountedFirstTenInErrors ==
  (pc = "done" /\ upsertCalls # <<>>) =>
    /\ UpsertsAccounted
    /\ \A j \in 1..Len(failures) : j <= 10 => res.errors[j] = failures[j]

\* The second of the contacts fails, the others do not.
C4_Witness ==
  /\ pc = "done"
  /\ Len(mappedContacts) = 2
  /\ upsertResults[1] = "ok" /\ upsertResults[2] = "http"
  /\ res.failed = 1
  /\ res.upserted = 1
  /\ res.errors = << [email |-> mappedContacts[2].email, error |-> ErrMessage("http")] >>

NoEmailAnywhere(c) ==
  /\ c.email \in Falsy /\ c.email_address \in Falsy /\ c.emailAddress \in Falsy
  /\ \A i \in 1..Len(c.emails.items) :
       ~c.emails.items[i].isNull /\ c.emails.items[i].address \in Falsy

Dropped == {i \in 1..Len(contacts) : NoEmailAnywhere(contacts[i])}

(***************************************************************************)
(* C5.  Records without any email are counted in fetched and nowhere else: *)
(* no upsert call, no POST, no failure and no errors entry is theirs.      *)
(***************************************************************************)
C5_DropIsSilent ==
  /\ Len(upsertCalls) <= Len(contacts) - Cardinality(Dropped)
  /\ \A b \in posted : Truthy(b.email)
  /\ \A i \in 1..Len(upsertCalls) : Truthy(upsertCalls[i])
  /\ Summarised =>
       /\ res.fetched = Len(contacts)
       /\ res.upserted + res.failed = Len(contacts) - Cardinality(Dropped)
       /\ \A j \in 1..Len(res.errors) : Truthy(res.errors[j].email)

C5_Witness ==
  /\ Summarised
  /\ contacts = <<Ann, Anon>>
  /\ res.fetched = 2 /\ res.upserted = 1 /\ res.failed = 0 /\ res.errors = <<>>
  /\ Cardinality(posted) = 1

(***************************************************************************)
(* C6.  A record whose mapping throws does not abort the batch: once the   *)
(* collector has returned, the invocation ends with the summary, the other *)
(* records upserted.                                                       *)
(***************************************************************************)
C6_MappingErrorIsolated ==
  (pc = "done" /\ CollectorReturned) =>
    /\ res.ok
    /\ res.status = 200
    /\ Len(upsertCalls) = Cardinality({i \in 1..Len(contacts) :
                                         ~NoEmailAnywhere(contacts[i]) /\ ~MapThrows(contacts[i])})

(***************************************************************************)
(* C7.  With the domain missing or CHANGE_ME, or a key missing, no request *)
(* goes to either service and the one response is { ok: false, error }.    *)
(***************************************************************************)
C7_ConfigErrorBeforeNetwork ==
  (/\ pc # "start"
   /\ \/ domain \in {Undef, Null, "", "CHANGE_ME"}
      \/ sourceKey \in {Undef, Null, ""}
      \/ targetKey \in {Undef, Null, ""}) =>
    /\ pc = "done"
    /\ getsSent = {} /\ pageCalls = <<>>
    /\ posted = {} /\ upsertCalls = <<>>
    /\ resCount = 1
    /\ res.status = 500
    /\ res.keys = {"ok", "error"}
    /\ ~res.ok
    /\ res.error \in ConfigMessages

C7_Witness ==
  /\ pc = "done"
  /\ domain = "togetherchurch" /\ sourceKey = "cs-key" /\ targetKey = Undef
  /\ res.error = TargetKeyNotSet
  /\ getsSent = {}

SourceExhausted == pc = "done" /\ url = "source" /\ outcome \in Failures /\ retries = 0

(***************************************************************************)
(* C8.  When the request for a source page has used up its retries, the    *)
(* invocation answers ok: false with that error's message, carries no      *)
(* count of the records fetched so far, and sends nothing to the target.   *)
(***************************************************************************)
C8_FetchFailureFatal ==
  SourceExhausted =>
    /\ resCount = 1
    /\ res.status = 500
    /\ ~res.ok
    /\ res.error = ErrMessage(outcome)
    /\ res.keys \cap {"fetched", "upserted", "failed", "errors"} = {}
    /\ res.fetched = 0
    /\ mappedContacts = <<>>
    /\ upsertCalls = <<>>
    /\ posted = {}

\* Page 1 brought a record, page 2 could not be fetched.
C8_Witness ==
  /\ SourceExhausted
  /\ page = 2
  /\ contacts = <<Ann>>
  /\ res.error = ErrMessage("net")

Blanks == {"", Null, Undef}

NoBlank(email, attributes) ==
  /\ email \notin Blanks
  /\ \A k \in DOMAIN attributes : attributes[k] \notin Blanks

AddressLines ==
  { "address_line1", "addressLine1", "address_line2", "addressLine2",
    "address_line3", "addressLine3", "address_line4", "addressLine4" }

(***************************************************************************)
(* C9.  What the mapper returns, and the POST body made of it, has an      *)
(* email that is not empty and no attribute that is "", null or undefined; *)
(* ADDRESS is absent when no address line is present.                      *)
(***************************************************************************)
C9_NoBlankOverwrite ==
  /\ mResult.kind = "contact" =>
       /\ NoBlank(mResult.email, mResult.attributes)
       /\ (\A f \in AddressLines : mContact[f] \in Blanks) =>
            "ADDRESS" \notin DOMAIN mResult.attributes
  /\ mState = "posted" =>
       /\ NoBlank(mPayload.email, mPayload.attributes)
       /\ mPayload.email = mResult.email
       /\ mPayload.attributes = mResult.attributes

C9_Witness ==
  /\ mState = "posted"
  /\ mContact.first_name = "" /\ mContact.firstName = Null
  /\ \A f \in AddressLines : mContact[f] = ""
  /\ DOMAIN mPayload.attributes = {}

(***************************************************************************)
(* C10.  In the summary, failed is the number of upserts that failed and   *)
(* errors is the first min(failed, 10) of the failures, in order.          *)
(***************************************************************************)
C10_ErrorsCapped ==
  Summarised =>
    LET all == FailuresAmong(Len(upsertResults))
    IN /\ res.failed = Len(all)
       /\ Len(res.errors) = Min(res.failed, 10)
       /\ \A j \in 1..Len(res.errors) : res.errors[j] = all[j]

C10_Witness ==
  /\ Summarised
  /\ res.failed = 11
  /\ Len(res.errors) = 10
  /\ res.errors[10].email = "p10@example.org"

====
